---- MODULE Spec2Model ----
(***************************************************************************)
(* Model of src/app.py: run_strategy, the single trading decision made     *)
(* from a window of prices and volumes, a portfolio (cash_balance,         *)
(* shares_held) and five window lengths.                                   *)
(*                                                                         *)
(* Numbers.  Prices and volumes are integers.  A float is a record        *)
(* [n, d, sub]: with sub = FALSE the number n/d, in lowest terms with      *)
(* d > 0, with sub = TRUE the subnormal n * 2^-1074 (d = 1).  On the       *)
(* normal numbers of the model arithmetic is exact: the relative rounding  *)
(* of IEEE doubles (2^-53) is not modelled.  On the subnormal numbers,     *)
(* which are exactly the integer multiples of 2^-1074, a product or        *)
(* quotient is rounded to the nearest multiple, ties to even, as IEEE      *)
(* arithmetic rounds it; a result of 0 is the underflow to 0.0.            *)
(*                                                                         *)
(* Control.  One call is walked through in the order of the code:          *)
(* Validate (lines 47-74), ComputeIndicators (76-86), then one of Buy      *)
(* (88-113), Sell (115-127), Hold (129-135).  `args` keeps the arguments   *)
(* as passed; prices, volumes, cash_balance, shares_held are the           *)
(* function's own names for them, which Buy and Sell reassign.             *)
(***************************************************************************)
EXTENDS Integers, Sequences, FiniteSets, TLC

VARIABLES args, prices, volumes, cash_balance, shares_held, cfg,
          pc, ind, result, raised, calls, trades

vars == <<args, prices, volumes, cash_balance, shares_held, cfg,
          pc, ind, result, raised, calls, trades>>

---------------------------------------------------------------------------
(* Bounds of the model *)

\* longest price or volume series of a single call
MaxLen == 2
\* largest window length of a configuration
MaxWin == 1
\* calls of one chained sequence (SpecSeq)
MaxCalls == 4

\* window lengths include 0, which the code accepts without complaint; the
\* long window reaches one further than the others, so that a short average
\* over fewer prices than the long one exists at the smallest bound
Windows == 0 .. MaxWin
LongWindows == 0 .. MaxWin + 1
\* prices and volumes of a single call: the code accepts any number, and a
\* volume above twice a mean it is part of needs a negative volume when the
\* window holds fewer than three
PriceVals == {-1, 0, 2, 3}
VolVals == {-1, 1}

---------------------------------------------------------------------------
(* Python floats *)

Abs(x) == IF x < 0 THEN -x ELSE x

RECURSIVE GCD(_, _)
GCD(a, b) == IF b = 0 THEN a ELSE GCD(b, a % b)

\* the normal float n / d (d # 0), in lowest terms
Rat(n, d) ==
    LET s == IF d < 0 THEN -1 ELSE 1
        g == GCD(Abs(n), Abs(d))
    IN  [n |-> (s * n) \div g, d |-> (s * d) \div g, sub |-> FALSE]

FloatOfInt(i) == [n |-> i, d |-> 1, sub |-> FALSE]
Zero == FloatOfInt(0)

\* the subnormal float k * 2^-1074; Subnormal(1) is 5e-324, the smallest
\* positive float
Subnormal(k) == IF k = 0 THEN Zero ELSE [n |-> k, d |-> 1, sub |-> TRUE]

\* the integer nearest to n / d (d > 0), a tie going to the even one
RoundHalfEven(n, d) ==
    LET f == n \div d
        r == n - f * d
    IN  IF 2 * r < d THEN f
        ELSE IF 2 * r > d THEN f + 1
        ELSE IF f % 2 = 0 THEN f ELSE f + 1

\* the exact value q, counted in units of 2^-1074, rounded to a float
RoundSubnormal(q) == Subnormal(RoundHalfEven(q.n, q.d))

\* a < b; a subnormal lies between 0 and every normal of its sign
FloatLess(a, b) ==
    IF a.sub = b.sub THEN a.n * b.d < b.n * a.d
    ELSE IF a.sub THEN b.n > 0 \/ (b.n = 0 /\ a.n < 0)
    ELSE a.n < 0 \/ (a.n = 0 /\ b.n > 0)

\* a * b; a subnormal times a normal is rounded to the subnormal grid, and
\* the product of two subnormals underflows to 0
FloatMul(a, b) ==
    IF a.sub /\ b.sub THEN Zero
    ELSE IF a.sub \/ b.sub THEN RoundSubnormal(Rat(a.n * b.n, a.d * b.d))
    ELSE Rat(a.n * b.n, a.d * b.d)

\* a / b for a normal b; a subnormal quotient is rounded to the subnormal grid
FloatDiv(a, b) ==
    IF a.sub THEN RoundSubnormal(Rat(a.n * b.d, a.d * b.n))
    ELSE Rat(a.n * b.d, a.d * b.n)

\* a - b for normal a and b
FloatSub(a, b) == Rat(a.n * b.d - b.n * a.d, a.d * b.d)

---------------------------------------------------------------------------
(* Python sequences: negative indices and slices *)

\* a slice bound i of a list of length n, clamped as Python clamps it
SliceIndex(i, n) ==
    IF i < 0 THEN (IF i + n < 0 THEN 0 ELSE i + n)
             ELSE (IF i > n THEN n ELSE i)

\* s[start:stop]
PySlice(s, start, stop) ==
    LET lo == SliceIndex(start, Len(s))
        hi == SliceIndex(stop, Len(s))
    IN  IF lo >= hi THEN <<>> ELSE SubSeq(s, lo + 1, hi)

\* s[start:]
PySliceFrom(s, start) == PySlice(s, start, Len(s))

\* whether s[i] exists (otherwise Python raises IndexError)
InRange(s, i) == IF i < 0 THEN i + Len(s) >= 0 ELSE i < Len(s)

\* s[i], for InRange(s, i)
PyIndex(s, i) == IF i < 0 THEN s[i + Len(s) + 1] ELSE s[i + 1]

RECURSIVE Sum(_)
Sum(s) == IF s = <<>> THEN 0 ELSE Head(s) + Sum(Tail(s))

RECURSIVE MaxOf(_)
\* max(s) of a non-empty list
MaxOf(s) ==
    IF Len(s) = 1 THEN s[1]
    ELSE LET m == MaxOf(Tail(s)) IN IF Head(s) >= m THEN Head(s) ELSE m

Max2(a, b) == IF a >= b THEN a ELSE b

---------------------------------------------------------------------------
(* TradeResult and average *)

Msg(text) == [text |-> text, need |-> <<>>]

MsgLength == Msg("Prices and volumes must be the same length")
MsgNegative == Msg("cash_balance and shares_held must be non-negative")
MsgNotEnough(np, nv) ==
    [text |-> "Not enough data (need at least {} prices and {} volumes)",
     need |-> <<np, nv>>]
MsgPrice == Msg("Invalid current price (must be > 0) for buying")
MsgBuy == Msg("ALL-IN BUY on breakout")
MsgSell == Msg("SELL due to trend reversal")
MsgHold == Msg("Holding position")

\* the dataclass; shares_traded defaults to 0.0
TradeResult(action, message, shares_traded, cash, shares) ==
    [action |-> action, message |-> message, shares_traded |-> shares_traded,
     cash_balance |-> cash, shares_held |-> shares]

NoResult == [action |-> "NONE"]

\* average(nums) for a non-empty list; the empty list raises ValueError
Average(nums) == Rat(Sum(nums), Len(nums))

---------------------------------------------------------------------------
(* Validation, lines 47-74 *)

\* mutant: as many prices as the largest window, the current one not counted
MinPricesNeededWindowsOnly(c) ==
    Max2(Max2(c.breakout_lookback, c.long_window),
         Max2(c.short_window, c.momentum_days))

MinPricesNeeded(c) ==
    Max2(Max2(c.breakout_lookback + 1, c.long_window),
         Max2(c.short_window, c.momentum_days + 1))

MinVolsNeeded(c) == Max2(c.vol_lookback, 1)

\* the keyword defaults of lines 28-32
DefaultCfg ==
    [breakout_lookback |-> 20, vol_lookback |-> 20, short_window |-> 5,
     long_window |-> 15, momentum_days |-> 5]

\* mutant: the balances checked before the lengths
ValidationBalancesFirst(p, v, cash, shares, c) ==
    IF FloatLess(cash, Zero) \/ FloatLess(shares, Zero)
    THEN TradeResult("STOP", MsgNegative, Zero, cash, shares)
    ELSE IF Len(p) # Len(v)
    THEN TradeResult("STOP", MsgLength, Zero, cash, shares)
    ELSE IF Len(p) < MinPricesNeeded(c) \/ Len(v) < MinVolsNeeded(c)
    THEN TradeResult("STOP", MsgNotEnough(MinPricesNeeded(c), MinVolsNeeded(c)),
                     Zero, cash, shares)
    ELSE NoResult

\* the STOP result of the first failing check, or NoResult when all pass
Validation(p, v, cash, shares, c) ==
    IF Len(p) # Len(v)
    THEN TradeResult("STOP", MsgLength, Zero, cash, shares)
    ELSE IF FloatLess(cash, Zero) \/ FloatLess(shares, Zero)
    THEN TradeResult("STOP", MsgNegative, Zero, cash, shares)
    ELSE IF Len(p) < MinPricesNeeded(c) \/ Len(v) < MinVolsNeeded(c)
    THEN TradeResult("STOP", MsgNotEnough(MinPricesNeeded(c), MinVolsNeeded(c)),
                     Zero, cash, shares)
    ELSE NoResult

---------------------------------------------------------------------------
(* Indicators, lines 76-86 *)

VolumeWindow(v, c) == PySliceFrom(v, -c.vol_lookback)
\* mutant: the slice not stopped before the current price
PrevHighWindowWithCurrent(p, c) == PySliceFrom(p, -(c.breakout_lookback + 1))
PrevHighWindow(p, c) == PySlice(p, -(c.breakout_lookback + 1), -1)
ShortWindow(p, c) == PySliceFrom(p, -c.short_window)
LongWindow(p, c) == PySliceFrom(p, -c.long_window)
\* mutant: the index counted from the oldest price
MomentumIndexFromStart(c) == c.momentum_days
MomentumIndex(c) == -(c.momentum_days + 1)

NoIndicators == [raised |-> "not computed"]

\* the statements of lines 76-86 in order: the first one that raises ends
\* the call with its exception
Indicators(p, v, c) ==
    IF ~InRange(p, -1) \/ ~InRange(v, -1)
    THEN [raised |-> "IndexError: list index out of range"]
    ELSE IF VolumeWindow(v, c) = <<>>
    THEN [raised |-> "ValueError: Cannot average an empty list."]
    ELSE IF PrevHighWindow(p, c) = <<>>
    THEN [raised |-> "ValueError: max() arg is an empty sequence"]
    ELSE IF ShortWindow(p, c) = <<>> \/ LongWindow(p, c) = <<>>
    THEN [raised |-> "ValueError: Cannot average an empty list."]
    ELSE IF ~InRange(p, MomentumIndex(c))
    THEN [raised |-> "IndexError: list index out of range"]
    ELSE [raised |-> "none",
          current_price |-> PyIndex(p, -1),
          last_volume |-> PyIndex(v, -1),
          avg_volume_n |-> Average(VolumeWindow(v, c)),
          recent_high_prev_n |-> MaxOf(PrevHighWindow(p, c)),
          short_ma |-> Average(ShortWindow(p, c)),
          long_ma |-> Average(LongWindow(p, c)),
          momentum_n |-> PyIndex(p, -1) - PyIndex(p, MomentumIndex(c))]

---------------------------------------------------------------------------
(* Decision rules, lines 88-135 *)

\* the condition of the if at lines 89-94
BuyCondition(i, shares) ==
    /\ shares = Zero
    /\ i.current_price > i.recent_high_prev_n
    /\ FloatLess(FloatMul(FloatOfInt(2), i.avg_volume_n), FloatOfInt(i.last_volume))
    /\ i.momentum_n > 0

\* lines 103-105
SharesToBuy(cash, price) == FloatDiv(cash, FloatOfInt(price))

\* mutant: the guard lets a price of 0 through
BuyResultStrictGuard(i, cash, shares) ==
    IF i.current_price < 0
    THEN TradeResult("STOP", MsgPrice, Zero, cash, shares)
    ELSE TradeResult("BUY", MsgBuy, SharesToBuy(cash, i.current_price),
                     Zero, SharesToBuy(cash, i.current_price))

\* mutant: the guard placed after cash_balance = 0.0
BuyResultGuardAfterAssign(i, cash, shares) ==
    IF i.current_price <= 0
    THEN TradeResult("STOP", MsgPrice, Zero, Zero, shares)
    ELSE TradeResult("BUY", MsgBuy, SharesToBuy(cash, i.current_price),
                     Zero, SharesToBuy(cash, i.current_price))

\* lines 95-113
BuyResult(i, cash, shares) ==
    IF i.current_price <= 0
    THEN TradeResult("STOP", MsgPrice, Zero, cash, shares)
    ELSE TradeResult("BUY", MsgBuy, SharesToBuy(cash, i.current_price),
                     Zero, SharesToBuy(cash, i.current_price))

\* mutant: short_ma <= long_ma
SellConditionNotStrict(i, shares) ==
    /\ FloatLess(Zero, shares)
    /\ ~FloatLess(i.long_ma, i.short_ma)

\* the condition of the if at line 116
SellCondition(i, shares) ==
    /\ FloatLess(Zero, shares)
    /\ FloatLess(i.short_ma, i.long_ma)

\* line 118
SaleProceeds(shares, price) == FloatMul(shares, FloatOfInt(price))

\* mutant: the proceeds taken from the cash passed in instead of replacing it
SellResultDebitsCash(i, cash, shares) ==
    TradeResult("SELL", MsgSell, shares,
                FloatSub(cash, SaleProceeds(shares, i.current_price)), Zero)

\* lines 117-127
SellResult(i, cash, shares) ==
    TradeResult("SELL", MsgSell, shares, SaleProceeds(shares, i.current_price), Zero)

\* mutant: the portfolio not passed to the result, which keeps its defaults
HoldResultDefaults(cash, shares) == TradeResult("HOLD", MsgHold, Zero, Zero, Zero)

\* lines 129-135
HoldResult(cash, shares) == TradeResult("HOLD", MsgHold, Zero, cash, shares)

---------------------------------------------------------------------------
(* Inputs *)

SeqsUpTo(S, n) == UNION {[1 .. k -> S] : k \in 0 .. n}

Configs ==
    [breakout_lookback : Windows, vol_lookback : Windows, short_window : Windows,
     long_window : LongWindows, momentum_days : Windows]

\* <<cash_balance, shares_held>> as passed by a caller
Portfolios == {<<-1, 0>>, <<0, -1>>, <<5, 0>>, <<5, 3>>}

Arguments(P, V, F) ==
    {[prices |-> p, volumes |-> v,
      cash_balance |-> FloatOfInt(f[1]), shares_held |-> FloatOfInt(f[2])] :
        p \in SeqsUpTo(P, MaxLen), v \in SeqsUpTo(V, MaxLen), f \in F}

\* the state on entry to run_strategy with arguments a and configuration c
Enter(a, c) ==
    /\ args = a
    /\ prices = a.prices
    /\ volumes = a.volumes
    /\ cash_balance = a.cash_balance
    /\ shares_held = a.shares_held
    /\ cfg = c
    /\ pc = "validate"
    /\ ind = NoIndicators
    /\ result = NoResult
    /\ raised = "none"

Init ==
    /\ \E a \in Arguments(PriceVals, VolVals, Portfolios), c \in Configs : Enter(a, c)
    /\ calls = 1
    /\ trades = <<>>

---------------------------------------------------------------------------
(* One call, step by step *)

\* lines 47-74
Validate ==
    /\ pc = "validate"
    /\ LET stop == Validation(prices, volumes, cash_balance, shares_held, cfg)
       IN  IF stop.action # "NONE"
           THEN result' = stop /\ pc' = "done"
           ELSE result' = result /\ pc' = "indicators"
    /\ UNCHANGED <<args, prices, volumes, cash_balance, shares_held, cfg,
                   ind, raised, calls, trades>>

\* lines 76-86
ComputeIndicators ==
    /\ pc = "indicators"
    /\ LET i == Indicators(prices, volumes, cfg)
       IN  IF i.raised # "none"
           THEN raised' = i.raised /\ ind' = ind /\ pc' = "raised"
           ELSE raised' = raised /\ ind' = i /\ pc' = "decide"
    /\ UNCHANGED <<args, prices, volumes, cash_balance, shares_held, cfg,
                   result, calls, trades>>

\* lines 88-113: the price guard returns before the portfolio is reassigned
Buy ==
    /\ pc = "decide"
    /\ BuyCondition(ind, shares_held)
    /\ result' = BuyResult(ind, cash_balance, shares_held)
    /\ cash_balance' = result'.cash_balance
    /\ shares_held' = result'.shares_held
    /\ trades' = IF result'.action = "BUY" THEN Append(trades, "BUY") ELSE trades
    /\ pc' = "done"
    /\ UNCHANGED <<args, prices, volumes, cfg, ind, raised, calls>>

\* lines 115-127
Sell ==
    /\ pc = "decide"
    /\ ~BuyCondition(ind, shares_held)
    /\ SellCondition(ind, shares_held)
    /\ result' = SellResult(ind, cash_balance, shares_held)
    /\ cash_balance' = result'.cash_balance
    /\ shares_held' = result'.shares_held
    /\ trades' = Append(trades, "SELL")
    /\ pc' = "done"
    /\ UNCHANGED <<args, prices, volumes, cfg, ind, raised, calls>>

\* lines 129-135
Hold ==
    /\ pc = "decide"
    /\ ~BuyCondition(ind, shares_held)
    /\ ~SellCondition(ind, shares_held)
    /\ result' = HoldResult(cash_balance, shares_held)
    /\ pc' = "done"
    /\ UNCHANGED <<args, prices, volumes, cash_balance, shares_held, cfg,
                   ind, raised, calls, trades>>

Next == Validate \/ ComputeIndicators \/ Buy \/ Sell \/ Hold

Spec == Init /\ [][Next]_vars


---------------------------------------------------------------------------
(* A sequence of calls, each receiving the portfolio the previous call     *)
(* returned, on windows of strictly positive prices and volumes.           *)

SeqPriceVals == {1, 2}
SeqVolVals == {1, 5}
\* the cash a sequence starts with: 5, or 5e-324
SeqCash == {FloatOfInt(5), Subnormal(1)}

\* a positive volume above twice a mean it is part of needs a window of at
\* least three volumes
SeqLen == MaxLen + 1

\* the default configuration (lines 28-32) scaled to the bounds: the average
\* volume over SeqLen volumes, the long average over one price more than the
\* previous high, the short average and the momentum over one
SeqCfg ==
    [breakout_lookback |-> MaxWin, vol_lookback |-> SeqLen, short_window |-> 1,
     long_window |-> MaxWin + 1, momentum_days |-> 1]

\* aligned windows of every length up to SeqLen
SeqWindows ==
    UNION {[prices : [1 .. k -> SeqPriceVals], volumes : [1 .. k -> SeqVolVals]] :
            k \in 0 .. SeqLen}

SeqArgs(w, cash, shares) ==
    [prices |-> w.prices, volumes |-> w.volumes,
     cash_balance |-> cash, shares_held |-> shares]

InitSeq ==
    /\ \E w \in SeqWindows, c \in SeqCash : Enter(SeqArgs(w, c, Zero), SeqCfg)
    /\ calls = 1
    /\ trades = <<>>

\* the caller passes the returned portfolio to the next call
NextCall ==
    /\ pc = "done"
    /\ calls < MaxCalls
    /\ \E w \in SeqWindows :
         LET a == SeqArgs(w, result.cash_balance, result.shares_held)
         IN  /\ args' = a
             /\ prices' = a.prices
             /\ volumes' = a.volumes
             /\ cash_balance' = a.cash_balance
             /\ shares_held' = a.shares_held
    /\ pc' = "validate"
    /\ ind' = NoIndicators
    /\ result' = NoResult
    /\ calls' = calls + 1
    /\ UNCHANGED <<cfg, raised, trades>>

NextSeq == Next \/ NextCall

SpecSeq == InitSeq /\ [][NextSeq]_vars


---------------------------------------------------------------------------
(* Vocabulary of the properties, stated on the arguments as passed and     *)
(* independently of the slices and indices the code uses                   *)

\* the n last elements of s
LastN(s, n) == SubSeq(s, Len(s) - n + 1, Len(s))
\* the n elements immediately before the last one
PrevN(s, n) == SubSeq(s, Len(s) - n, Len(s) - 1)
Range(s) == {s[k] : k \in DOMAIN s}
Greatest(S) == CHOOSE m \in S : \A x \in S : x <= m

Actions == {"BUY", "SELL", "HOLD", "STOP"}
NonNegative(r) == ~FloatLess(r, Zero)

\* the five window lengths are positive integers (section 3 of the spec)
PositiveCfg(c) ==
    /\ c.breakout_lookback >= 1
    /\ c.vol_lookback >= 1
    /\ c.short_window >= 1
    /\ c.long_window >= 1
    /\ c.momentum_days >= 1

\* max(breakout_lookback+1, long_window, short_window, momentum_days+1)
RequiredPrices(c) ==
    Greatest({c.breakout_lookback + 1, c.long_window, c.short_window,
              c.momentum_days + 1})
\* max(vol_lookback, 1)
RequiredVolumes(c) == Greatest({c.vol_lookback, 1})

SameLength == Len(args.prices) = Len(args.volumes)
NegativeBalance ==
    FloatLess(args.cash_balance, Zero) \/ FloatLess(args.shares_held, Zero)
TooShort ==
    \/ Len(args.prices) < RequiredPrices(cfg)
    \/ Len(args.volumes) < RequiredVolumes(cfg)

\* the arguments pass the three validation checks
PassesValidation == SameLength /\ ~NegativeBalance /\ ~TooShort

\* the call has returned or raised
Finished == pc \in {"done", "raised"}
Returned == pc = "done"

CurrentPrice == args.prices[Len(args.prices)]
LastVolume == args.volumes[Len(args.volumes)]

\* current price above the highest of the breakout_lookback prices before it
Breakout == CurrentPrice > Greatest(Range(PrevN(args.prices, cfg.breakout_lookback)))
\* last volume above twice the mean of the vol_lookback trailing volumes
VolumeSurge ==
    LastVolume * cfg.vol_lookback > 2 * Sum(LastN(args.volumes, cfg.vol_lookback))
\* current_price - prices[current_index - momentum_days] > 0
MomentumUp == CurrentPrice - args.prices[Len(args.prices) - cfg.momentum_days] > 0
\* mean of the short_window trailing prices below that of the long_window ones
BearishCross ==
    Sum(LastN(args.prices, cfg.short_window)) * cfg.long_window
        < Sum(LastN(args.prices, cfg.long_window)) * cfg.short_window


---------------------------------------------------------------------------
(* Properties *)

IsStop(message) == result.action = "STOP" /\ result.message = message
ValidationMessages ==
    {MsgLength.text, MsgNegative.text, MsgNotEnough(0, 0).text}

\* C1: once validation has run, the STOP reason is that of the first failing
\* check in the order length mismatch, negative balance, insufficient
\* history: a length mismatch gives the length message whatever the balances
\* and lengths are; otherwise a negative cash_balance or shares_held gives
\* the non-negative message, also on a short history; otherwise the result
\* is the "Not enough data" STOP exactly when prices are fewer than
\* max(breakout_lookback+1, long_window, short_window, momentum_days+1) or
\* volumes fewer than max(vol_lookback, 1), its message naming both minimums
\* (21 and 20 for the default configuration); series of exactly the minimum
\* length pass.
C1_ValidationOrder ==
    pc # "validate" =>
        /\ ~SameLength => IsStop(MsgLength)
        /\ SameLength /\ NegativeBalance => IsStop(MsgNegative)
        /\ SameLength /\ ~NegativeBalance /\ TooShort =>
             /\ IsStop(MsgNotEnough(RequiredPrices(cfg), RequiredVolumes(cfg)))
             /\ MsgNotEnough(MinPricesNeeded(DefaultCfg),
                             MinVolsNeeded(DefaultCfg)).need = <<21, 20>>
        /\ PassesValidation =>
             \/ result.action = "NONE"
             \/ result.message.text \notin ValidationMessages

\* a negative balance on a history that is too short, of equal lengths,
\* stopped with the non-negative message
C1_Witness ==
    /\ pc = "done"
    /\ SameLength /\ NegativeBalance /\ TooShort
    /\ IsStop(MsgNegative)


C3_SellIff ==
    (Finished /\ PositiveCfg(cfg) /\ PassesValidation) =>
        /\ (Returned /\ result.action = "SELL") <=>
             /\ FloatLess(Zero, args.shares_held)
             /\ BearishCross
        /\ (Returned /\ result.action = "SELL") =>
             /\ result.shares_held = Zero
             /\ result.cash_balance = Rat(args.shares_held.n * CurrentPrice, args.shares_held.d)
             /\ result.shares_traded = args.shares_held

\* 3 shares sold at price 2 with 5 cash passed in: the result holds 6 cash
C3_Witness ==
    /\ Returned /\ PositiveCfg(cfg) /\ PassesValidation
    /\ result.action = "SELL"
    /\ args.cash_balance = FloatOfInt(5)
    /\ args.shares_held = FloatOfInt(3)
    /\ result.cash_balance = FloatOfInt(6)

\* C4: a HOLD or STOP result (any of the four STOP causes) carries exactly
\* the cash_balance and shares_held passed in and shares_traded 0; and in
\* every state of a call the prices and volumes are those passed in.
C4_Frame ==
    /\ prices = args.prices
    /\ volumes = args.volumes
    /\ (Returned /\ result.action \in {"HOLD", "STOP"}) =>
         /\ result.cash_balance = args.cash_balance
         /\ result.shares_held = args.shares_held
         /\ result.shares_traded = Zero

\* a HOLD with a position on both sides of the portfolio
C4_Witness ==
    /\ Returned
    /\ result.action = "HOLD"
    /\ result.cash_balance = FloatOfInt(5)
    /\ result.shares_held = FloatOfInt(3)


\* C5 as stated: for equal-length series of at least the minimum length the
\* call returns exactly one of BUY, SELL, HOLD, STOP and the cash_balance and
\* shares_held of the result are non-negative, whatever the values in the
\* series and the balances passed in.
C5_Original ==
    (Finished /\ PositiveCfg(cfg) /\ SameLength /\ ~TooShort) =>
        /\ Returned
        /\ result.action \in Actions
        /\ NonNegative(result.cash_balance)
        /\ NonNegative(result.shares_held)

\* C5 amended: for equal-length series of at least the minimum length the
\* call returns exactly one of BUY, SELL, HOLD, STOP; the cash_balance and
\* shares_held of the result are non-negative provided the cash_balance and
\* shares_held passed in are non-negative and the current price is not
\* negative.
C5_NonNegative ==
    (Finished /\ PositiveCfg(cfg) /\ SameLength /\ ~TooShort) =>
        /\ Returned
        /\ result.action \in Actions
        /\ (~NegativeBalance /\ CurrentPrice >= 0) =>
             /\ NonNegative(result.cash_balance)
             /\ NonNegative(result.shares_held)

\* a SELL of 3 shares at price 2 on a history of exactly the minimum length
C5_Witness ==
    /\ Returned /\ PositiveCfg(cfg) /\ SameLength /\ ~TooShort /\ ~NegativeBalance
    /\ Len(args.prices) = RequiredPrices(cfg)
    /\ result.action = "SELL"
    /\ CurrentPrice = 2
    /\ result.cash_balance = FloatOfInt(6)

\* C6 as stated: every STOP result, the one for a non-positive price at buy
\* time included, is produced before any indicator is computed and before
\* any portfolio variable is changed.
C6_Original ==
    (Returned /\ result.action = "STOP") =>
        /\ ind = NoIndicators
        /\ cash_balance = args.cash_balance
        /\ shares_held = args.shares_held

\* C6 amended: the three validation STOPs (length mismatch, negative balance,
\* insufficient history) are produced before any indicator is computed; the
\* STOP for a non-positive price at buy time is produced after the
\* indicators have been computed; and every STOP is produced before any
\* portfolio variable is changed.
C6_StopBeforeEffects ==
    (Returned /\ result.action = "STOP") =>
        /\ (result.message.text \in ValidationMessages) <=> (ind = NoIndicators)
        /\ (result.message = MsgPrice) <=> (ind # NoIndicators)
        /\ cash_balance = args.cash_balance
        /\ shares_held = args.shares_held

\* the STOP for a non-positive price, with the indicators computed
C6_Witness ==
    /\ Returned /\ PositiveCfg(cfg)
    /\ result.action = "STOP"
    /\ result.message = MsgPrice
    /\ ind # NoIndicators
    /\ cash_balance = FloatOfInt(5)

\* C7: when validation passes, shares_held == 0 and the breakout, volume
\* surge and momentum conditions hold but the current price is <= 0, the
\* call returns STOP "Invalid current price (must be > 0) for buying" with
\* the portfolio as passed in and nothing traded; no BUY result has a
\* current price <= 0.
C7_PriceGuard ==
    (Finished /\ PositiveCfg(cfg) /\ PassesValidation) =>
        /\ (args.shares_held = Zero /\ Breakout /\ VolumeSurge /\ MomentumUp
              /\ CurrentPrice <= 0) =>
             /\ Returned
             /\ result = TradeResult("STOP", MsgPrice, Zero,
                                     args.cash_balance, args.shares_held)
        /\ (Returned /\ result.action = "BUY") => CurrentPrice > 0

\* the guard taken at price 0 with 5 cash
C7_Witness ==
    /\ Returned /\ PositiveCfg(cfg) /\ PassesValidation
    /\ args.shares_held = Zero /\ Breakout /\ VolumeSurge /\ MomentumUp
    /\ CurrentPrice = 0
    /\ result.message = MsgPrice
    /\ result.cash_balance = FloatOfInt(5)


\* C9: in a call whose five window lengths are positive, once validation has
\* passed every indicator window is fully populated: the volume, short and
\* long slices hold exactly vol_lookback, short_window and long_window
\* elements, the previous-high slice exactly breakout_lookback, and the
\* momentum index lies inside the series; so average never sees an empty
\* list, nothing is raised, and what the call returns is a TradeResult.
C9_WindowsPopulated ==
    PositiveCfg(cfg) =>
        /\ pc # "raised"
        /\ raised = "none"
        /\ (pc \in {"indicators", "decide"} \/ ind # NoIndicators) =>
             /\ Len(VolumeWindow(volumes, cfg)) = cfg.vol_lookback
             /\ Len(ShortWindow(prices, cfg)) = cfg.short_window
             /\ Len(LongWindow(prices, cfg)) = cfg.long_window
             /\ Len(PrevHighWindow(prices, cfg)) = cfg.breakout_lookback
             /\ InRange(prices, MomentumIndex(cfg))
             /\ Len(prices) + MomentumIndex(cfg) + 1 \in DOMAIN prices
        /\ Returned => result.action \in Actions

\* the indicators computed on a history of exactly the minimum length, the
\* previous-high window reaching back to the first price
C9_Witness ==
    /\ pc = "decide" /\ PositiveCfg(cfg) /\ PassesValidation
    /\ Len(prices) = RequiredPrices(cfg)
    /\ Len(prices) = cfg.breakout_lookback + 1
    /\ Len(prices) = cfg.long_window
    /\ ind.raised = "none"

\* run_strategy with the momentum condition removed from the BUY rule
DecisionWithoutMomentum(i, cash, shares) ==
    IF /\ shares = Zero
       /\ i.current_price > i.recent_high_prev_n
       /\ FloatLess(FloatMul(FloatOfInt(2), i.avg_volume_n), FloatOfInt(i.last_volume))
    THEN BuyResult(i, cash, shares)
    ELSE IF SellCondition(i, shares) THEN SellResult(i, cash, shares)
    ELSE HoldResult(cash, shares)

RunWithoutMomentum(p, v, cash, shares, c) ==
    LET stop == Validation(p, v, cash, shares, c)
        i == Indicators(p, v, c)
    IN  IF stop.action # "NONE" THEN [raised |-> "none", result |-> stop]
        ELSE IF i.raised # "none" THEN [raised |-> i.raised, result |-> NoResult]
        ELSE [raised |-> "none", result |-> DecisionWithoutMomentum(i, cash, shares)]

ExactlyOneZero(cash, shares) == (cash = Zero) # (shares = Zero)

\* C8: from shares_held = 0 and cash_balance > 0, through any number of calls
\* on windows of strictly positive prices and volumes, each call receiving
\* the portfolio the previous one returned: exactly one of cash_balance and
\* shares_held is zero in every portfolio passed in or returned, a BUY is
\* returned only from the fully-cash state and a SELL only from the
\* fully-invested state, and the BUY and SELL actions of the sequence
\* alternate strictly, starting with BUY.  The code violates it: with
\* cash_balance = 5e-324 and a breakout at price 2 the quotient at line 103
\* underflows, the BUY returns shares_held = 0.0 and cash_balance = 0.0, and
\* the next call on the same window returns BUY again.
C8_AllInAllOut ==
    /\ ExactlyOneZero(args.cash_balance, args.shares_held)
    /\ ExactlyOneZero(cash_balance, shares_held)
    /\ Returned =>
         /\ ExactlyOneZero(result.cash_balance, result.shares_held)
         /\ result.action = "BUY" =>
              args.shares_held = Zero /\ FloatLess(Zero, args.cash_balance)
         /\ result.action = "SELL" =>
              args.cash_balance = Zero /\ FloatLess(Zero, args.shares_held)
    /\ \A k \in DOMAIN trades :
         trades[k] = IF k % 2 = 1 THEN "BUY" ELSE "SELL"

====
